---------------------------- MODULE Spec2Model ----------------------------
(***************************************************************************)
(* Relayboy ratchets: the V1 symmetric ratchet (src/backend) and the V2    *)
(* zero-metadata ratchet (src/kyber), sender and receiver of each.         *)
(*                                                                         *)
(* Cryptography is symbolic.  A key is the sequence of labels that derived *)
(* it from the initial secret, so HKDF is injective and deterministic; an  *)
(* AES-GCM output is a sealed box that opens only under the key, nonce and *)
(* associated data that sealed it.  Byte strings that the code parses (the *)
(* AAD of V1) are sequences of tokens, parsed as the code parses them.     *)
(***************************************************************************)
EXTENDS Integers, Sequences, FiniteSets, TLC

\* ------------------------------------------------------------------------
\* Bounds of the model
\* ------------------------------------------------------------------------

\* Messages a sender encrypts in an in-order run.
MaxMsgs == 3

\* Messages a sender encrypts in a run delivered out of order.
MaxPerm == 4

\* Messages a sender encrypts in a run with an adversary on the wire.
MaxWire == 2

\* The receiver's step is explored up to this value.
MaxStep == 6

\* V1 receiver limits.  The source sets MAX_SKIP_RANGE = 1000 and
\* MAX_STORED_KEYS = 2000 (src/backend/quantum_decryption_module.py:30-31);
\* the model scales both down so that both limits are reached within
\* MaxStep and a run of MaxPerm messages is longer than MAX_SKIP_RANGE.
MAX_SKIP_RANGE == 3

MAX_STORED_KEYS == 4

\* V2 receiver lookahead.  The source sets MAX_SKIP = 100
\* (src/kyber/quantum_decryption_module.py:54); the model scales it down so
\* that a run of MaxPerm messages is longer than the lookahead.
MAX_SKIP == 3

\* The V2 receiver's declared bound on stored keys.  The source sets
\* MAX_CACHE = 50, half of MAX_SKIP (src/kyber/quantum_decryption_module.py:55),
\* and no method reads it; the model scales it down with MAX_SKIP.
MAX_CACHE == 1

\* Root refreshes of each V2 ratchet in one run.
MaxRefresh == 1

\* Packets the V2 sender puts on the wire in a run with an adversary.
MaxWire2 == 2

\* Encrypt calls of the V2 sender between refreshes in such a run, the ones
\* that raise PayloadTooLarge included.
MaxStep2 == 4

\* V2 sender-only runs: encrypt calls, and packets among them.
MaxSizeStep == 10

MaxSizeMsgs == 2

\* ------------------------------------------------------------------------
\* Program constants
\* ------------------------------------------------------------------------

SALT_SIZE == 16

NONCE_SIZE == 12

TAG_SIZE == 16

HKDF_INFO == "AES-GCM-256-KEY"

RATCHET_INFO_CHAIN == "RATCHET-CHAIN-KEY"

RATCHET_INFO_MSG == "RATCHET-MESSAGE-KEY"

AES_KEY_SIZE == 32

FIXED_PAYLOAD_SIZE == 512

BEACON_SIZE == 16

HKDF_INFO_V2 == "AES-GCM-256-ZERO-METADATA"

LOOKUP_ID_INFO == "MESSAGE-LOOKUP-ID"

ROOT_REFRESH_INFO == "ROOT-REFRESH"

\* salt=None of the HKDF calls inside the ratchet
NoSalt == "salt:none"

\* ------------------------------------------------------------------------
\* Input sets
\* ------------------------------------------------------------------------

Secrets == {"kA", "kB"}

\* Plaintexts, with their length in bytes.
Plaintexts == {[id |-> "hi", len |-> 2], [id |-> "bye", len |-> 3]}

\* What os.urandom returns for a salt and for a nonce.
Salts == {"s1", "s2"}

Nonces == {"n1"}

Digit == [d \in {"0", "1", "2", "3", "4", "5", "6", "7", "8", "9"} |->
            CASE d = "0" -> 0 [] d = "1" -> 1 [] d = "2" -> 2 [] d = "3" -> 3
              [] d = "4" -> 4 [] d = "5" -> 5 [] d = "6" -> 6 [] d = "7" -> 7
              [] d = "8" -> 8 [] d = "9" -> 9]

DigitTok == <<"0", "1", "2", "3", "4", "5", "6", "7", "8", "9">>

\* str(n) of a non-negative integer, as digit tokens (the f-string "{seq}").
RECURSIVE Str(_)
Str(n) == IF n < 10 THEN <<DigitTok[n + 1]>>
          ELSE Append(Str(n \div 10), DigitTok[(n % 10) + 1])

\* V2 plaintexts: one that fits the fixed payload and one that does not.
PlaintextsV2 == {[id |-> "hi", len |-> 2], [id |-> "big", len |-> 505]}

\* The secrets a caller may construct a ratchet with, one of them 16 bytes
\* long, and the length in bytes of each.
AnySecrets == Secrets \cup {"short"}

SecretLen == [k \in AnySecrets |-> IF k = "short" THEN 16 ELSE 32]

\* Plaintext lengths around the limit of the fixed payload.
SizePlaintexts == {[id |-> "m", len |-> n] : n \in {0, 448, 449, 450, 504, 505}}

\* What the receiver's refresh_root is given as new entropy: what the sender
\* drew, or something else.
Entropies == {"e1", "e2"}

\* The new_seed the sender draws for its refresh_root.
SenderEntropies == {"e1"}

\* The default sender_id, "User", and its length in bytes.
SenderId == [name |-> "User", len |-> 4]

\* int(time.time()) and str(uuid.uuid4())[:8] of the hidden header.
Timestamp == 1700000000

MessageId == "abcd1234"

\* aad=None
NoAad == <<>>

\* f"seq:{i}" (verify_sync.py)
AadSeq(n) == <<"seq:">> \o Str(n)

\* f"sender:Test|seq:{seq}|ts:12345678" (test_out_of_order.py)
AadFull(n) == <<"sender:Test", "|", "seq:">> \o Str(n) \o <<"|", "ts:12345678">>

\* b"seq:5000|id:attack" (run_automated_test)
AadAttack == <<"seq:", "5", "0", "0", "0", "|", "id:attack">>

\* AADs that carry no sequence number the receiver can read.
AadOdd == {<<"id:a">>, <<"seq:", "x">>, <<"seq:", "|", "1">>, <<"seq:", "-", "1">>}

\* The AADs an adversary hands the receiver.
AadPool == {NoAad, AadAttack, <<"seq:", "x">>, AadFull(1)}
             \cup {AadSeq(n) : n \in 0..(MaxStep + MAX_SKIP_RANGE)}

\* ------------------------------------------------------------------------
\* Primitives
\* ------------------------------------------------------------------------

\* HKDF-SHA256(master, salt, context): a new key, a function of its inputs
\* alone, different for different inputs.
HKDF(master, salt, context) == master \o <<salt, context>>

\* AES-256-GCM encrypt_and_digest: ciphertext and tag.
AeadSeal(key, nonce, aad, pt) ==
    [key |-> key, nonce |-> nonce, aad |-> aad, pt |-> pt, intact |-> TRUE]

\* AES-256-GCM decrypt_and_verify: the plaintext, or a tag mismatch.
AeadOpens(key, nonce, aad, box) ==
    /\ box.intact
    /\ box.key = key
    /\ box.nonce = nonce
    /\ box.aad = aad

\* ------------------------------------------------------------------------
\* V1 sender: SymmetricRatchet
\* ------------------------------------------------------------------------

\* encrypt_message: salt || nonce || ciphertext || tag
encrypt_message(shared_secret, plaintext, aad, salt, nonce) ==
    LET aes_key == HKDF(shared_secret, salt, HKDF_INFO)
    IN  [salt  |-> salt,
         nonce |-> nonce,
         box   |-> AeadSeal(aes_key, nonce, aad, plaintext),
         len   |-> SALT_SIZE + NONCE_SIZE + plaintext.len + TAG_SIZE]

SenderInit(secret) == [chain_key |-> <<secret>>, step |-> 0]

\* SymmetricRatchet._advance: the message key, and the ratchet after it.
SenderAdvance(tx) ==
    [mk |-> HKDF(tx.chain_key, NoSalt, RATCHET_INFO_MSG),
     tx |-> [chain_key |-> HKDF(tx.chain_key, NoSalt, RATCHET_INFO_CHAIN),
             step      |-> tx.step + 1]]

\* ------------------------------------------------------------------------
\* V1 receiver: SymmetricRatchetReceiver
\* ------------------------------------------------------------------------

ReceiverInit(secret) ==
    [chain_key |-> <<secret>>, step |-> 0, skipped_keys |-> <<>>]

\* _advance with the message key derived after the chain key was replaced.
ReceiverAdvanceLate(rx) ==
    LET new_chain_key == HKDF(rx.chain_key, NoSalt, RATCHET_INFO_CHAIN)
    IN  [mk |-> HKDF(new_chain_key, NoSalt, RATCHET_INFO_MSG),
         rx |-> [rx EXCEPT !.chain_key = new_chain_key, !.step = rx.step + 1]]

\* SymmetricRatchetReceiver._advance
ReceiverAdvance(rx) ==
    [mk |-> HKDF(rx.chain_key, NoSalt, RATCHET_INFO_MSG),
     rx |-> [rx EXCEPT !.chain_key = HKDF(rx.chain_key, NoSalt, RATCHET_INFO_CHAIN),
                       !.step = rx.step + 1]]

\* The index of the first token of s equal to t, or 0.
RECURSIVE IndexOf(_, _, _)
IndexOf(s, t, i) == IF i > Len(s) THEN 0
                    ELSE IF s[i] = t THEN i
                    ELSE IndexOf(s, t, i + 1)

\* s.split(t)[0]: the tokens before the first t.
Before(s, t) == LET i == IndexOf(s, t, 1)
                IN  IF i = 0 THEN s ELSE SubSeq(s, 1, i - 1)

\* s.split(t)[1]: the tokens between the first t and the next one.
AfterFirst(s, t) == LET i == IndexOf(s, t, 1)
                    IN  Before(SubSeq(s, i + 1, Len(s)), t)

IsDigits(s) == Len(s) > 0 /\ \A i \in 1..Len(s) : s[i] \in DOMAIN Digit

RECURSIVE DecimalValue(_)
DecimalValue(s) == IF Len(s) = 0 THEN 0
                   ELSE 10 * DecimalValue(SubSeq(s, 1, Len(s) - 1)) + Digit[s[Len(s)]]

\* int(parts) succeeds: decimal digits, with an optional sign.
IntParses(parts) ==
    \/ IsDigits(parts)
    \/ Len(parts) > 1 /\ parts[1] \in {"-", "+"} /\ IsDigits(Tail(parts))

IntValue(parts) ==
    IF parts[1] = "-" THEN 0 - DecimalValue(Tail(parts))
    ELSE IF parts[1] = "+" THEN DecimalValue(Tail(parts))
    ELSE DecimalValue(parts)

\* The target step decrypt reads from the AAD, or step + 1.
TargetStep(aad, step) ==
    IF aad # NoAad /\ IndexOf(aad, "seq:", 1) # 0
    THEN LET parts == Before(AfterFirst(aad, "seq:"), "|")
         IN  IF IntParses(parts) THEN IntValue(parts) ELSE step + 1
    ELSE step + 1

\* dict.pop(target)
MapRemove(f, k) == [x \in DOMAIN f \ {k} |-> f[x]]

\* dict[k] = v
MapPut(f, k, v) == [x \in DOMAIN f \cup {k} |-> IF x = k THEN v ELSE f[x]]

\* The catch-up loop saving the key of the target step as well.
RECURSIVE CatchUpSaveAll(_, _, _)
CatchUpSaveAll(rx, target_step, message_key) ==
    IF rx.step < target_step
    THEN LET a == ReceiverAdvance(rx)
         IN  CatchUpSaveAll([a.rx EXCEPT !.skipped_keys =
                                MapPut(a.rx.skipped_keys, a.rx.step, a.mk)],
                            target_step, a.mk)
    ELSE [rx |-> rx, mk |-> message_key]

\* The catch-up loop without the store of the keys passed over.
RECURSIVE CatchUpNoSave(_, _, _)
CatchUpNoSave(rx, target_step, message_key) ==
    IF rx.step < target_step
    THEN LET a == ReceiverAdvance(rx)
         IN  CatchUpNoSave(a.rx, target_step, a.mk)
    ELSE [rx |-> rx, mk |-> message_key]

\* The catch-up loop of decrypt: advance to target_step, saving the keys of
\* the steps passed over.
RECURSIVE CatchUp(_, _, _)
CatchUp(rx, target_step, message_key) ==
    IF rx.step < target_step
    THEN LET a == ReceiverAdvance(rx)
         IN  IF a.rx.step < target_step
             THEN CatchUp([a.rx EXCEPT !.skipped_keys =
                              MapPut(a.rx.skipped_keys, a.rx.step, a.mk)],
                          target_step, a.mk)
             ELSE CatchUp(a.rx, target_step, a.mk)
    ELSE [rx |-> rx, mk |-> message_key]

\* Case A reading the saved key without removing it.
PopSkippedKeep(rx, target_step) == rx

\* Case A moving the receiver back to the step whose key it used.
PopSkippedRewind(rx, target_step) ==
    [rx EXCEPT !.skipped_keys = MapRemove(@, target_step), !.step = target_step]

\* Case A of decrypt: self._skipped_keys.pop(target_step)
PopSkipped(rx, target_step) ==
    [rx EXCEPT !.skipped_keys = MapRemove(@, target_step)]

\* decrypt_message: the plaintext, or the error raised.
decrypt_message(shared_secret, package, aad) ==
    IF package.len < SALT_SIZE + NONCE_SIZE + TAG_SIZE
    THEN [res |-> "MalformedPacket", out |-> "none"]
    ELSE LET aes_key == HKDF(shared_secret, package.salt, HKDF_INFO)
         IN  IF AeadOpens(aes_key, package.nonce, aad, package.box)
             THEN [res |-> "ok", out |-> package.box.pt]
             ELSE [res |-> "AuthFailure", out |-> "none"]

\* The skip-distance limit, one step too generous.
SkipTooLargeOffByOne(rx, target_step) == target_step - rx.step > MAX_SKIP_RANGE + 1

\* The two limits checked before a catch-up.
SkipTooLarge(rx, target_step) == target_step - rx.step > MAX_SKIP_RANGE

\* The store limit, one key too generous.
SkipStoreOverflowLoose(rx, target_step) ==
    Cardinality(DOMAIN rx.skipped_keys) + (target_step - rx.step) > MAX_STORED_KEYS + 1

SkipStoreOverflow(rx, target_step) ==
    Cardinality(DOMAIN rx.skipped_keys) + (target_step - rx.step) > MAX_STORED_KEYS

\* SymmetricRatchetReceiver.decrypt: the receiver after the call, and what
\* the call returned or raised.
ReceiverDecrypt(rx, package, aad) ==
    LET target_step == TargetStep(aad, rx.step)
        fail(kind) == [rx |-> rx, res |-> kind, out |-> "none"]
        finish(rx2, mk) == LET d == decrypt_message(mk, package, aad)
                           IN  [rx |-> rx2, res |-> d.res, out |-> d.out]
    IN  IF target_step \in DOMAIN rx.skipped_keys
        THEN finish(PopSkipped(rx, target_step), rx.skipped_keys[target_step])
        ELSE IF target_step > rx.step
        THEN IF SkipTooLarge(rx, target_step) THEN fail("SkipTooLarge")
             ELSE IF SkipStoreOverflow(rx, target_step) THEN fail("SkipStoreOverflow")
             ELSE LET c == CatchUp(rx, target_step, <<>>)
                  IN  finish(c.rx, c.mk)
        ELSE fail("ReplayOrStale")

\* ------------------------------------------------------------------------
\* V2 sender: QuantumDoubleRatchet
\* ------------------------------------------------------------------------

QSenderInit(secret) ==
    [root_key |-> <<secret>>, chain_key |-> <<secret>>, step |-> 0,
     sender_id |-> SenderId]

\* refresh_root replacing the root and leaving the chain key of the old root.
QSenderRefreshRootKeepChain(tx, new_entropy) ==
    LET new_root == HKDF(Append(tx.root_key, new_entropy), NoSalt, ROOT_REFRESH_INFO)
    IN  [tx EXCEPT !.root_key = new_root, !.step = 0]

\* QuantumDoubleRatchet.refresh_root
QSenderRefreshRoot(tx, new_entropy) ==
    LET new_root == HKDF(Append(tx.root_key, new_entropy), NoSalt, ROOT_REFRESH_INFO)
    IN  [tx EXCEPT !.root_key = new_root, !.chain_key = new_root, !.step = 0]

\* The message key derived from the chain key and the sender's id.
AdvanceMessageKeyWithId(tx) ==
    [mk |-> HKDF(Append(tx.chain_key, tx.sender_id.name), NoSalt, RATCHET_INFO_MSG),
     tx |-> [tx EXCEPT !.chain_key = HKDF(tx.chain_key, NoSalt, RATCHET_INFO_CHAIN),
                       !.step = tx.step + 1]]

\* QuantumDoubleRatchet._advance_message_key
AdvanceMessageKey(tx) ==
    [mk |-> HKDF(tx.chain_key, NoSalt, RATCHET_INFO_MSG),
     tx |-> [tx EXCEPT !.chain_key = HKDF(tx.chain_key, NoSalt, RATCHET_INFO_CHAIN),
                       !.step = tx.step + 1]]

\* len(json.dumps(header)): {"s": "<id>", "n": <step>, "t": <time>, "i": "<8 chars>"}
HeaderLen(header) == 40 + header.s.len + Len(Str(header.n)) + Len(Str(header.t))

\* The content encrypt packs: [HdrLen] + [Hdr] + [MsgLen] + [Msg].
PackContent(header, plaintext) ==
    [hdr_len |-> HeaderLen(header), header |-> header,
     msg_len |-> plaintext.len, message |-> plaintext]

\* The size check counting the two length fields and the message only.
ContentLenNoHeader(content) == 4 + 4 + content.msg_len

ContentLen(content) == 4 + content.hdr_len + 4 + content.msg_len

\* encrypt checking the size of the content before it advances the chain.
QSenderEncryptCheckFirst(tx, plaintext, nonce, time, uuid) ==
    LET a == AdvanceMessageKey(tx)
        header == [s |-> a.tx.sender_id, n |-> a.tx.step, t |-> time,
                   i |-> uuid]
        content == PackContent(header, plaintext)
    IN  IF ContentLen(content) > FIXED_PAYLOAD_SIZE
        THEN [tx |-> tx, res |-> "PayloadTooLarge", package |-> "none"]
        ELSE LET padded == [content EXCEPT !.message = plaintext] @@
                             [padding |-> FIXED_PAYLOAD_SIZE - ContentLen(content)]
                 aes_key == HKDF(a.mk, NoSalt, HKDF_INFO_V2)
                 lookup_id == HKDF(a.mk, NoSalt, LOOKUP_ID_INFO)
             IN  [tx |-> a.tx, res |-> "ok",
                  package |-> [beacon |-> lookup_id,
                               nonce  |-> nonce,
                               box    |-> AeadSeal(aes_key, nonce, NoAad, padded),
                               len    |-> BEACON_SIZE + NONCE_SIZE + TAG_SIZE
                                            + ContentLen(content) + padded.padding]]

\* QuantumDoubleRatchet.encrypt: the ratchet after the call, and the package
\* or the error raised, given what os.urandom, time.time and uuid.uuid4
\* return inside the call.
QSenderEncryptAt(tx, plaintext, nonce, time, uuid) ==
    LET a == AdvanceMessageKey(tx)
        header == [s |-> a.tx.sender_id, n |-> a.tx.step, t |-> time,
                   i |-> uuid]
        content == PackContent(header, plaintext)
    IN  IF ContentLen(content) > FIXED_PAYLOAD_SIZE
        THEN [tx |-> a.tx, res |-> "PayloadTooLarge", package |-> "none"]
        ELSE LET padded == [content EXCEPT !.message = plaintext] @@
                             [padding |-> FIXED_PAYLOAD_SIZE - ContentLen(content)]
                 aes_key == HKDF(a.mk, NoSalt, HKDF_INFO_V2)
                 lookup_id == HKDF(a.mk, NoSalt, LOOKUP_ID_INFO)
             IN  [tx |-> a.tx, res |-> "ok",
                  package |-> [beacon |-> lookup_id,
                               nonce  |-> nonce,
                               box    |-> AeadSeal(aes_key, nonce, NoAad, padded),
                               len    |-> BEACON_SIZE + NONCE_SIZE + TAG_SIZE
                                            + ContentLen(content) + padded.padding]]

\* QuantumDoubleRatchet.encrypt at the time and with the message id of the
\* runs.
QSenderEncrypt(tx, plaintext, nonce) ==
    QSenderEncryptAt(tx, plaintext, nonce, Timestamp, MessageId)

\* ------------------------------------------------------------------------
\* V2 receiver: QuantumDoubleRatchetReceiver
\* ------------------------------------------------------------------------

\* trial_decrypt: the decrypted payload, or None.
trial_decrypt(msg_key, package) ==
    LET aes_key == HKDF(msg_key, NoSalt, HKDF_INFO_V2)
    IN  IF AeadOpens(aes_key, package.nonce, NoAad, package.box)
        THEN [none |-> FALSE, payload |-> package.box.pt]
        ELSE [none |-> TRUE, payload |-> "None"]

\* _unpack: the message, or the TypeError raised on None (the failed
\* authentication of the package).
Unpack(decrypted_payload) ==
    IF decrypted_payload.none
    THEN [res |-> "AuthFailure", out |-> "none"]
    ELSE [res |-> "ok", out |-> decrypted_payload.payload.message]

\* The lookup id (beacon) of a message key.
LookupId(key) == HKDF(key, NoSalt, LOOKUP_ID_INFO)

\* The lookahead loop of _refresh_lookup_cache: the next `left` message keys
\* of a shadow chain, indexed by lookup id.
\* The lookahead loop filing each candidate key under the step before its
\* own.
RECURSIVE LookaheadOffByOne(_, _, _, _)
LookaheadOffByOne(cache, temp_chain, temp_step, left) ==
    IF left = 0 THEN cache
    ELSE LET candidate_key == HKDF(temp_chain, NoSalt, RATCHET_INFO_MSG)
             next_chain == HKDF(temp_chain, NoSalt, RATCHET_INFO_CHAIN)
         IN  LookaheadOffByOne(MapPut(cache, HKDF(candidate_key, NoSalt, LOOKUP_ID_INFO),
                                      [key |-> candidate_key, seq |-> temp_step]),
                               next_chain, temp_step + 1, left - 1)

RECURSIVE Lookahead(_, _, _, _)
Lookahead(cache, temp_chain, temp_step, left) ==
    IF left = 0 THEN cache
    ELSE LET candidate_key == HKDF(temp_chain, NoSalt, RATCHET_INFO_MSG)
             next_chain == HKDF(temp_chain, NoSalt, RATCHET_INFO_CHAIN)
         IN  Lookahead(MapPut(cache, LookupId(candidate_key),
                              [key |-> candidate_key, seq |-> temp_step + 1]),
                       next_chain, temp_step + 1, left - 1)

\* The first loop of _refresh_lookup_cache: the skipped keys by lookup id.
IndexSkipped(skipped_keys) ==
    [lid \in {LookupId(skipped_keys[seq]) : seq \in DOMAIN skipped_keys} |->
        LET seq == CHOOSE q \in DOMAIN skipped_keys : LookupId(skipped_keys[q]) = lid
        IN  [key |-> skipped_keys[seq], seq |-> seq]]

\* The cache rebuilt with one lookahead entry too many.
RefreshLookupCacheLong(rx) ==
    [rx EXCEPT !.lookup_cache =
        Lookahead(IndexSkipped(rx.skipped_keys), rx.chain_key, rx.step, MAX_SKIP + 1)]

\* The cache rebuilt with one lookahead entry too few.
RefreshLookupCacheShort(rx) ==
    [rx EXCEPT !.lookup_cache =
        Lookahead(IndexSkipped(rx.skipped_keys), rx.chain_key, rx.step, MAX_SKIP - 1)]

\* QuantumDoubleRatchetReceiver._refresh_lookup_cache
RefreshLookupCache(rx) ==
    [rx EXCEPT !.lookup_cache =
        Lookahead(IndexSkipped(rx.skipped_keys), rx.chain_key, rx.step, MAX_SKIP)]

QReceiverInit(secret) ==
    RefreshLookupCache([root_key |-> <<secret>>, chain_key |-> <<secret>>,
                        step |-> 0, skipped_keys |-> <<>>, lookup_cache |-> <<>>])

\* refresh_root keeping the step of the old chain.
QReceiverRefreshRootKeepStep(rx, new_entropy) ==
    LET new_root == HKDF(Append(rx.root_key, new_entropy), NoSalt, ROOT_REFRESH_INFO)
    IN  RefreshLookupCache([rx EXCEPT !.root_key = new_root,
                                      !.chain_key = new_root,
                                      !.skipped_keys = <<>>])

\* refresh_root leaving the lookup cache of the old chain in place.
QReceiverRefreshRootStaleCache(rx, new_entropy) ==
    LET new_root == HKDF(Append(rx.root_key, new_entropy), NoSalt, ROOT_REFRESH_INFO)
    IN  [rx EXCEPT !.root_key = new_root,
                   !.chain_key = new_root,
                   !.step = 0,
                   !.skipped_keys = <<>>]

\* QuantumDoubleRatchetReceiver.refresh_root
QReceiverRefreshRoot(rx, new_entropy) ==
    LET new_root == HKDF(Append(rx.root_key, new_entropy), NoSalt, ROOT_REFRESH_INFO)
    IN  RefreshLookupCache([rx EXCEPT !.root_key = new_root,
                                      !.chain_key = new_root,
                                      !.step = 0,
                                      !.skipped_keys = <<>>])

\* _advance_chain with the message key derived after the chain key was
\* replaced.
AdvanceChainLate(rx) ==
    LET new_chain == HKDF(rx.chain_key, NoSalt, RATCHET_INFO_CHAIN)
    IN  [mk |-> HKDF(new_chain, NoSalt, RATCHET_INFO_MSG),
         rx |-> [rx EXCEPT !.chain_key = new_chain, !.step = rx.step + 1]]

\* QuantumDoubleRatchetReceiver._advance_chain
AdvanceChain(rx) ==
    [mk |-> HKDF(rx.chain_key, NoSalt, RATCHET_INFO_MSG),
     rx |-> [rx EXCEPT !.chain_key = HKDF(rx.chain_key, NoSalt, RATCHET_INFO_CHAIN),
                       !.step = rx.step + 1]]

\* Case B putting the key of match_seq into skipped_keys when the package
\* fails authentication.
RECURSIVE QCatchUpRestore(_, _, _)
QCatchUpRestore(rx, match_seq, package) ==
    LET a == AdvanceChain(rx)
    IN  IF a.rx.step = match_seq
        THEN LET u == Unpack(trial_decrypt(a.mk, package))
                 kept == IF u.res = "ok" THEN a.rx
                         ELSE [a.rx EXCEPT !.skipped_keys = MapPut(@, match_seq, a.mk)]
             IN  [rx |-> RefreshLookupCache(kept), res |-> u.res, out |-> u.out]
        ELSE LET saved == [a.rx EXCEPT !.skipped_keys =
                              MapPut(a.rx.skipped_keys, a.rx.step, a.mk)]
             IN  IF saved.step < match_seq
                 THEN QCatchUpRestore(saved, match_seq, package)
                 ELSE [rx |-> saved, res |-> "UnknownBeacon", out |-> "none"]

\* Case B of decrypt: advance the real chain to match_seq, saving the keys of
\* the steps passed over; the key of match_seq opens the package.
RECURSIVE QCatchUp(_, _, _)
QCatchUp(rx, match_seq, package) ==
    LET a == AdvanceChain(rx)
    IN  IF a.rx.step = match_seq
        THEN LET u == Unpack(trial_decrypt(a.mk, package))
             IN  [rx |-> RefreshLookupCache(a.rx), res |-> u.res, out |-> u.out]
        ELSE LET saved == [a.rx EXCEPT !.skipped_keys =
                              MapPut(a.rx.skipped_keys, a.rx.step, a.mk)]
             IN  IF saved.step < match_seq
                 THEN QCatchUp(saved, match_seq, package)
                 ELSE [rx |-> saved, res |-> "UnknownBeacon", out |-> "none"]

\* Case A using the saved key without deleting it.
QPopSkippedKeep(rx, match_seq) == rx

\* Case A of decrypt: del self._skipped_keys[match_seq]
QPopSkipped(rx, match_seq) ==
    [rx EXCEPT !.skipped_keys = MapRemove(@, match_seq)]

\* decrypt trying the next key of the chain on a beacon it does not know.
QReceiverDecryptSearch(rx, package) ==
    IF package.len < BEACON_SIZE + NONCE_SIZE + TAG_SIZE
    THEN [rx |-> rx, res |-> "MalformedPacket", out |-> "none"]
    ELSE IF package.beacon \in DOMAIN rx.lookup_cache
    THEN LET match == rx.lookup_cache[package.beacon]
         IN  IF match.seq \in DOMAIN rx.skipped_keys
             THEN LET u == Unpack(trial_decrypt(match.key, package))
                  IN  [rx |-> RefreshLookupCache(QPopSkipped(rx, match.seq)),
                       res |-> u.res, out |-> u.out]
             ELSE IF rx.step < match.seq
             THEN QCatchUp(rx, match.seq, package)
             ELSE [rx |-> rx, res |-> "UnknownBeacon", out |-> "none"]
    ELSE [rx |-> RefreshLookupCache(AdvanceChain(rx).rx),
          res |-> "UnknownBeacon", out |-> "none"]

\* QuantumDoubleRatchetReceiver.decrypt: the receiver after the call, and
\* what the call returned or raised.
QReceiverDecrypt(rx, package) ==
    IF package.len < BEACON_SIZE + NONCE_SIZE + TAG_SIZE
    THEN [rx |-> rx, res |-> "MalformedPacket", out |-> "none"]
    ELSE IF package.beacon \in DOMAIN rx.lookup_cache
    THEN LET match == rx.lookup_cache[package.beacon]
         IN  IF match.seq \in DOMAIN rx.skipped_keys
             THEN LET u == Unpack(trial_decrypt(match.key, package))
                  IN  [rx |-> RefreshLookupCache(QPopSkipped(rx, match.seq)),
                       res |-> u.res, out |-> u.out]
             ELSE IF rx.step < match.seq
             THEN QCatchUp(rx, match.seq, package)
             ELSE [rx |-> rx, res |-> "UnknownBeacon", out |-> "none"]
    ELSE [rx |-> rx, res |-> "UnknownBeacon", out |-> "none"]

\* ------------------------------------------------------------------------
\* State
\* ------------------------------------------------------------------------

VARIABLES
    sender,      \* V1 sender: chain_key, step
    sent,        \* the packets the V1 sender produced, with AAD and plaintext
    receiver,    \* V1 receiver: chain_key, step, skipped_keys
    ret,         \* what the last V1 decrypt call returned or raised
    delivered,   \* how often each sent packet's plaintext has been returned
    handed,      \* the sent packets a test driver has passed on, in order
    sender2,     \* V2 sender: root_key, chain_key, step, sender_id
    sent2,       \* the packets the V2 sender produced: plaintext, step, root
    receiver2,   \* V2 receiver: root_key, chain_key, step, skipped_keys, lookup_cache
    ret2,        \* what the last V2 decrypt call returned or raised
    delivered2,  \* how often each V2 packet's plaintext has been returned
    handed2,     \* the V2 packets a test driver has passed on, in order
    beacons2     \* the beacons of the lookup caches the V2 receiver has held:
                 \* all of them (held), those before its last refresh (before)

varsV1 == <<sender, sent, receiver, ret, delivered, handed>>

varsV2 == <<sender2, sent2, receiver2, ret2, delivered2, handed2, beacons2>>

vars == <<varsV1, varsV2>>

NoRet == [res |-> "none", out |-> "none"]

\* Both variants constructed, each sender and its receiver with the same
\* shared secret.
InitV1(secrets) ==
    /\ \E k \in secrets :
          /\ sender = SenderInit(k)
          /\ receiver = ReceiverInit(k)
          /\ sender2 = QSenderInit(k)
          /\ receiver2 = QReceiverInit(k)
          /\ beacons2 = [held |-> DOMAIN QReceiverInit(k).lookup_cache, before |-> {}]
    /\ sent = <<>>
    /\ ret = NoRet
    /\ delivered = <<>>
    /\ handed = <<>>
    /\ sent2 = <<>>
    /\ ret2 = NoRet
    /\ delivered2 = <<>>
    /\ handed2 = <<>>

\* SymmetricRatchet.encrypt(plaintext, aad), with the salt and the nonce that
\* os.urandom returns inside encrypt_message.
Encrypt(plaintext, aad, salt, nonce) ==
    /\ LET a == SenderAdvance(sender)
           package == encrypt_message(a.mk, plaintext, aad, salt, nonce)
       IN  /\ sender' = a.tx
           /\ sent' = Append(sent, [package |-> package, aad |-> aad,
                                     plaintext |-> plaintext])
           /\ delivered' = Append(delivered, 0)
    /\ UNCHANGED <<receiver, ret, varsV2>>

\* Which sent packet a package is (0: none of them as sent).
SentIndex(package) ==
    IF \E i \in 1..Len(sent) : sent[i].package = package
    THEN CHOOSE i \in 1..Len(sent) : sent[i].package = package
    ELSE 0

\* SymmetricRatchetReceiver.decrypt(package, aad)
Decrypt(package, aad) ==
    LET d == ReceiverDecrypt(receiver, package, aad)
        i == SentIndex(package)
    IN  /\ d.rx.step <= MaxStep
        /\ receiver' = d.rx
        /\ ret' = [res |-> d.res, out |-> d.out]
        /\ delivered' = IF d.res = "ok" /\ i # 0
                        THEN [delivered EXCEPT ![i] = @ + 1]
                        ELSE delivered
        /\ UNCHANGED <<sender, sent, varsV2>>

\* A byte of the nonce flipped in transit.
Corrupt(package) == [package EXCEPT !.nonce = "flipped"]

\* The packet cut below the 44 bytes of salt, nonce and tag.
Truncate(package) == [package EXCEPT !.len = SALT_SIZE + NONCE_SIZE + TAG_SIZE - 1]

\* Every package an adversary on the wire can hand the receiver.
Wire == {sent[i].package : i \in 1..Len(sent)}
          \cup {Corrupt(sent[i].package) : i \in 1..Len(sent)}
          \cup {Truncate(sent[i].package) : i \in 1..Len(sent) \cap {1}}

Range(s) == {s[i] : i \in 1..Len(s)}

\* ---- V1, runs with an adversary: any package with any AAD ---------------

\* The sender of main(): seq = step + 1 in the AAD, or no AAD at all.
WireSend ==
    /\ Len(sent) < MaxWire
    /\ \E aad \in {NoAad, AadSeq(sender.step + 1)} :
          Encrypt([id |-> "hi", len |-> 2], aad, "s1", "n1")
    /\ UNCHANGED handed

WireDecrypt ==
    /\ \E package \in Wire, aad \in AadPool : Decrypt(package, aad)
    /\ UNCHANGED handed

NextV1 == WireSend \/ WireDecrypt

SpecV1 == InitV1({"kA"}) /\ [][NextV1]_vars

\* ---- V1, in-order runs (verify_sync.py) ---------------------------------

\* The AADs a caller may give the n-th message.
SyncAads(n) == {NoAad, AadSeq(n), AadFull(n), AadSeq(1), <<"seq:", "x">>}

SyncSend ==
    /\ Len(sent) < MaxMsgs
    /\ \E pt \in Plaintexts, aad \in SyncAads(sender.step + 1), salt \in Salts :
          Encrypt(pt, aad, salt, "n1")
    /\ UNCHANGED handed

\* The driver hands the receiver the next packet, with the AAD it was
\* encrypted with.
SyncDecrypt ==
    /\ Len(handed) < Len(sent)
    /\ LET i == Len(handed) + 1
       IN  /\ Decrypt(sent[i].package, sent[i].aad)
           /\ handed' = Append(handed, i)

NextV1Sync == SyncSend \/ SyncDecrypt

SpecV1Sync == InitV1(Secrets) /\ [][NextV1Sync]_vars

\* ---- V1, out-of-order runs (test_out_of_order.py) -----------------------

PermSend ==
    /\ Len(sent) < MaxPerm
    /\ \E pt \in Plaintexts, aad \in {AadSeq(sender.step + 1), AadFull(sender.step + 1)} :
          Encrypt(pt, aad, "s1", "n1")
    /\ UNCHANGED handed

\* The driver hands the receiver a packet it has not handed over yet.
PermDecrypt ==
    \E i \in (1..Len(sent)) \ Range(handed) :
        /\ Decrypt(sent[i].package, sent[i].aad)
        /\ handed' = Append(handed, i)

NextV1Perm == PermSend \/ PermDecrypt

SpecV1Perm == InitV1({"kA"}) /\ [][NextV1Perm]_vars

\* ------------------------------------------------------------------------
\* V2 calls
\* ------------------------------------------------------------------------

\* QuantumDoubleRatchet.encrypt(plaintext), with the nonce os.urandom
\* returns.  A PayloadTooLarge leaves no packet but has advanced the chain.
QEncrypt(plaintext, nonce) ==
    LET e == QSenderEncrypt(sender2, plaintext, nonce)
    IN  /\ sender2' = e.tx
        /\ IF e.res = "ok"
           THEN /\ sent2' = Append(sent2, [package |-> e.package,
                                           plaintext |-> plaintext,
                                           step |-> e.tx.step,
                                           root |-> e.tx.root_key])
                /\ delivered2' = Append(delivered2, 0)
           ELSE UNCHANGED <<sent2, delivered2>>
        /\ UNCHANGED <<receiver2, ret2, beacons2, varsV1>>

SentIndex2(package) ==
    IF \E i \in 1..Len(sent2) : sent2[i].package = package
    THEN CHOOSE i \in 1..Len(sent2) : sent2[i].package = package
    ELSE 0

\* QuantumDoubleRatchetReceiver.decrypt(package)
QDecrypt(package) ==
    LET d == QReceiverDecrypt(receiver2, package)
        i == SentIndex2(package)
    IN  /\ receiver2' = d.rx
        /\ ret2' = [res |-> d.res, out |-> d.out]
        /\ delivered2' = IF d.res = "ok" /\ i # 0
                         THEN [delivered2 EXCEPT ![i] = @ + 1]
                         ELSE delivered2
        /\ beacons2' = [beacons2 EXCEPT !.held = @ \cup DOMAIN d.rx.lookup_cache]
        /\ UNCHANGED <<sender2, sent2, varsV1>>

\* How many times a ratchet's root has been refreshed.
RefreshCount(ratchet) == (Len(ratchet.root_key) - 1) \div 3

\* QuantumDoubleRatchet.refresh_root(new_entropy)
SenderRefresh ==
    /\ RefreshCount(sender2) < MaxRefresh
    /\ \E new_entropy \in SenderEntropies :
          sender2' = QSenderRefreshRoot(sender2, new_entropy)
    /\ UNCHANGED <<sent2, receiver2, ret2, delivered2, handed2, beacons2, varsV1>>

\* QuantumDoubleRatchetReceiver.refresh_root(new_entropy)
ReceiverRefresh ==
    /\ RefreshCount(receiver2) < MaxRefresh
    /\ \E new_entropy \in Entropies :
          LET rx == QReceiverRefreshRoot(receiver2, new_entropy)
          IN  /\ receiver2' = rx
              /\ beacons2' = [held   |-> beacons2.held \cup DOMAIN rx.lookup_cache,
                              before |-> beacons2.held]
    /\ UNCHANGED <<sender2, sent2, ret2, delivered2, handed2, varsV1>>

\* A byte of the ciphertext flipped in transit; the beacon is intact.
Corrupt2(package) == [package EXCEPT !.box.intact = FALSE]

\* A byte of the beacon flipped in transit.
Rebeacon(package) == [package EXCEPT !.beacon = <<"flipped">>]

\* The packet cut below the 44 bytes of beacon, nonce and tag.
Truncate2(package) == [package EXCEPT !.len = BEACON_SIZE + NONCE_SIZE + TAG_SIZE - 1]

\* The last byte of the packet lost in transit: 555 bytes, the beacon intact.
Shorten2(package) == [package EXCEPT !.len = @ - 1, !.box.intact = FALSE]

\* Every package an adversary on the wire can hand the V2 receiver.
Wire2 == {sent2[i].package : i \in 1..Len(sent2)}
           \cup {Corrupt2(sent2[i].package) : i \in 1..Len(sent2)}
           \cup {Shorten2(sent2[i].package) : i \in 1..Len(sent2)}
           \cup {Rebeacon(sent2[i].package) : i \in 1..Len(sent2) \cap {1}}
           \cup {Truncate2(sent2[i].package) : i \in 1..Len(sent2) \cap {1}}

\* ---- V2, runs with an adversary and root refreshes ----------------------

Wire2Send ==
    /\ Len(sent2) < MaxWire2
    /\ sender2.step < MaxStep2
    /\ \E pt \in PlaintextsV2 : QEncrypt(pt, "n1")
    /\ UNCHANGED handed2

Wire2Decrypt ==
    /\ \E package \in Wire2 : QDecrypt(package)
    /\ UNCHANGED handed2

NextV2 == Wire2Send \/ Wire2Decrypt \/ SenderRefresh \/ ReceiverRefresh

SpecV2 == InitV1({"kA"}) /\ [][NextV2]_vars

\* ---- V2, out-of-order runs without refresh ------------------------------

Perm2Send ==
    /\ Len(sent2) < MaxPerm
    /\ \E pt \in Plaintexts : QEncrypt(pt, "n1")
    /\ UNCHANGED handed2

\* The driver hands the receiver a packet it has not handed over yet.
Perm2Decrypt ==
    \E i \in (1..Len(sent2)) \ Range(handed2) :
        /\ QDecrypt(sent2[i].package)
        /\ handed2' = Append(handed2, i)

NextV2Perm == Perm2Send \/ Perm2Decrypt

SpecV2Perm == InitV1({"kA"}) /\ [][NextV2Perm]_vars

\* ---- V2, the sender alone, plaintexts of every size ---------------------

SizeSend ==
    /\ sender2.step < MaxSizeStep
    /\ \E pt \in SizePlaintexts :
          /\ QEncrypt(pt, "n1")
          /\ Len(sent2') <= MaxSizeMsgs
    /\ UNCHANGED handed2

NextV2Size == SizeSend

SpecV2Size == InitV1({"kA"}) /\ [][NextV2Size]_vars

\* ---- Ratchets constructed with any secret --------------------------------

SpecCtor == InitV1(AnySecrets) /\ [][NextV1Sync]_vars

\* ---- Either variant under an adversary ----------------------------------

\* No call has been made on the V2 objects yet.
V2Idle ==
    /\ sent2 = <<>>
    /\ ret2 = NoRet
    /\ sender2.step = 0
    /\ RefreshCount(sender2) = 0
    /\ RefreshCount(receiver2) = 0

NextBoth == (V2Idle /\ NextV1) \/ (sent = <<>> /\ NextV2)

SpecBoth == InitV1({"kA"}) /\ [][NextBoth]_vars

\* ------------------------------------------------------------------------
\* Claims about V1
\* ------------------------------------------------------------------------

\* The receiver reads step n from the AAD of the n-th message, or reads no
\* step from it (no AAD, no "seq:", or digits int() does not parse).
NamesOwnStep(aad, n) == TargetStep(aad, n - 1) = n

\* Every decrypt of an in-order run so far returned the plaintext of its
\* packet and left the receiver at the number of packets consumed.
InOrderRoundTrip ==
    handed # <<>> =>
        /\ ret.res = "ok"
        /\ ret.out = sent[Len(handed)].plaintext
        /\ receiver.step = Len(handed)

\* C1 as stated: V1 in-order round trip, whatever AAD the caller gave each
\* message: the i-th decrypt returns the i-th plaintext and the receiver's
\* step is the number of packets consumed.
C1_InOrderRoundTripAnyAad == InOrderRoundTrip

\* C1 amended: V1 in-order round trip, when the AAD of the i-th message
\* carries seq:i or no sequence number the receiver can read: the i-th
\* decrypt returns the i-th plaintext and the receiver's step is the number
\* of packets consumed.
C1_InOrderRoundTrip ==
    (\A j \in 1..Len(handed) : NamesOwnStep(sent[j].aad, j)) => InOrderRoundTrip

\* Three packets consumed in order, one encrypted without AAD, one with
\* "seq:2" and one with "sender:Test|seq:3|ts:12345678".
C1_Witness ==
    /\ Len(handed) = 3
    /\ sent[1].aad = NoAad
    /\ sent[2].aad = AadSeq(2)
    /\ sent[3].aad = AadFull(3)
    /\ sent[1].plaintext # sent[2].plaintext
    /\ ret.res = "ok"
    /\ ret.out = sent[3].plaintext

\* C2: V1 out-of-order delivery.  When the sender has encrypted at most
\* MAX_SKIP_RANGE messages, the i-th with an AAD carrying seq:i, and the
\* receiver gets each packet once, in any order, with its AAD, every decrypt
\* returns the plaintext of its packet; once all are consumed skipped_keys
\* is empty and the receiver's step is the number of messages.
C2_OutOfOrder ==
    Len(sent) <= MAX_SKIP_RANGE =>
        /\ handed # <<>> =>
              /\ ret.res = "ok"
              /\ ret.out = sent[handed[Len(handed)]].plaintext
        /\ (handed # <<>> /\ Range(handed) = 1..Len(sent)) =>
              /\ DOMAIN receiver.skipped_keys = {}
              /\ receiver.step = Len(sent)

\* MAX_SKIP_RANGE packets consumed last first, the others from skipped_keys.
C2_Witness ==
    /\ Len(sent) = MAX_SKIP_RANGE
    /\ Len(handed) = Len(sent)
    /\ handed[1] = Len(sent)
    /\ handed[2] = 1
    /\ ret.res = "ok"
    /\ DOMAIN receiver.skipped_keys = {}

\* C3: V2 out-of-order delivery.  When the sender has encrypted at most
\* MAX_SKIP messages without a refresh and the receiver gets each packet
\* once, in any order, every decrypt returns the plaintext encrypted at that
\* packet's step; once all are consumed skipped_keys is empty and the
\* receiver's step is the number of messages.
C3_OutOfOrderV2 ==
    Len(sent2) <= MAX_SKIP =>
        /\ handed2 # <<>> =>
              /\ ret2.res = "ok"
              /\ ret2.out = sent2[handed2[Len(handed2)]].plaintext
        /\ (handed2 # <<>> /\ Range(handed2) = 1..Len(sent2)) =>
              /\ DOMAIN receiver2.skipped_keys = {}
              /\ receiver2.step = Len(sent2)

\* MAX_SKIP packets consumed last first, the others from skipped_keys.
C3_Witness ==
    /\ Len(sent2) = MAX_SKIP
    /\ Len(handed2) = Len(sent2)
    /\ handed2[1] = Len(sent2)
    /\ sent2[1].plaintext # sent2[Len(sent2)].plaintext

\* C4: V1 DoS guard.  A decrypt whose target step is more than
\* MAX_SKIP_RANGE past the current step fails with SkipTooLarge; one within
\* that range whose distance added to len(skipped_keys) exceeds
\* MAX_STORED_KEYS fails with SkipStoreOverflow; either leaves step, chain
\* key and skipped_keys as they were.  Stated of the call on every package
\* of the wire with every AAD, in every state the receiver reaches.
C4_DosGuard ==
    \A aad \in AadPool :
        LET target == TargetStep(aad, receiver.step)
            distance == target - receiver.step
            stored == Cardinality(DOMAIN receiver.skipped_keys)
        IN  /\ distance > MAX_SKIP_RANGE =>
                 \A package \in Wire :
                    LET d == ReceiverDecrypt(receiver, package, aad)
                    IN  d.res = "SkipTooLarge" /\ d.rx = receiver
            /\ (/\ distance > 0
                /\ distance <= MAX_SKIP_RANGE
                /\ target \notin DOMAIN receiver.skipped_keys
                /\ stored + distance > MAX_STORED_KEYS) =>
                 \A package \in Wire :
                    LET d == ReceiverDecrypt(receiver, package, aad)
                    IN  d.res = "SkipStoreOverflow" /\ d.rx = receiver

\* A receiver holding skipped keys has refused a jump that would have
\* overfilled the store.
C4_Witness ==
    /\ ret.res = "SkipStoreOverflow"
    /\ receiver.step > 0
    /\ Cardinality(DOMAIN receiver.skipped_keys) = MAX_STORED_KEYS - 1

\* C5: V1 skipped-key store.  Every key of skipped_keys is a step below the
\* current step, and there are never more than MAX_STORED_KEYS of them.
C5_SkippedStore ==
    /\ \A s \in DOMAIN receiver.skipped_keys : s >= 1 /\ s < receiver.step
    /\ Cardinality(DOMAIN receiver.skipped_keys) <= MAX_STORED_KEYS

\* The store at its fullest, right below the current step.
C5_Witness ==
    /\ Cardinality(DOMAIN receiver.skipped_keys) = MAX_STORED_KEYS - 1
    /\ (receiver.step - 1) \in DOMAIN receiver.skipped_keys

\* The state an in-order run of all sent packets leaves.
AfterInOrderRun ==
    /\ Len(sent) > 0
    /\ receiver.step = Len(sent)
    /\ DOMAIN receiver.skipped_keys = {}
    /\ \A j \in 1..Len(sent) : delivered[j] = 1

\* C6 as stated, its last clause: after an in-order run the resubmitted
\* first packet fails with ReplayOrStale.
C6_ReplayAfterInOrderRun ==
    [][(AfterInOrderRun /\ Decrypt(sent[1].package, sent[1].aad))
          => ret'.res = "ReplayOrStale"]_vars

\* C6 amended: a packet that a decrypt call returned the plaintext of is
\* never decrypted again, with any AAD; resubmitted with its own AAD it
\* fails with ReplayOrStale or AuthFailure; and after an in-order run the
\* first packet, resubmitted with its AAD, fails with ReplayOrStale when that
\* AAD carries a sequence number the receiver reads (else with AuthFailure).
C6_ReplayRejected ==
    [][\A i \in 1..Len(sent) :
         delivered[i] > 0 =>
            /\ \A aad \in AadPool \cup {sent[i].aad} :
                  Decrypt(sent[i].package, aad) => ret'.res # "ok"
            /\ Decrypt(sent[i].package, sent[i].aad) =>
                  /\ ret'.res \in {"ReplayOrStale", "AuthFailure"}
                  /\ (AfterInOrderRun /\ i = 1) =>
                        ret'.res = IF TargetStep(sent[1].aad, 0) = TargetStep(sent[1].aad, 1)
                                   THEN "ReplayOrStale" ELSE "AuthFailure"]_vars

\* A replay was refused as stale after both sent packets had been delivered.
C6_Witness ==
    /\ ret.res = "ReplayOrStale"
    /\ Len(sent) = 2
    /\ delivered[1] = 1
    /\ delivered[2] = 1

\* C7 as stated: V1 exactly-once delivery.  Every sent message whose step
\* the receiver has passed and holds no skipped key for has been returned
\* exactly once.
C7_ExactlyOnce ==
    \A s \in 1..Len(sent) :
        (s <= receiver.step /\ s \notin DOMAIN receiver.skipped_keys)
            => delivered[s] = 1

\* The step is a decrypt call on the V1 receiver that ended in AuthFailure.
AuthFailureV1 == ret'.res = "AuthFailure" /\ <<receiver, ret>>' # <<receiver, ret>>

\* The step is a decrypt call on the V2 receiver that ended in AuthFailure.
AuthFailureV2 ==
    /\ ret2'.res = "AuthFailure"
    /\ <<receiver2, ret2>>' # <<receiver2, ret2>>
    /\ receiver2'.root_key = receiver2.root_key

\* C8 as stated: a decrypt of either variant that ends in AuthFailure
\* leaves the receiver's step, chain key and skipped_keys as they were.
C8_AuthFailureNoAdvance ==
    [][/\ AuthFailureV1 =>
             /\ receiver'.step = receiver.step
             /\ receiver'.chain_key = receiver.chain_key
             /\ receiver'.skipped_keys = receiver.skipped_keys
       /\ AuthFailureV2 =>
             /\ receiver2'.step = receiver2.step
             /\ receiver2'.chain_key = receiver2.chain_key
             /\ receiver2'.skipped_keys = receiver2.skipped_keys]_vars

\* C9: the V1 receiver's step never decreases.
C9_StepMonotonic == [][receiver'.step >= receiver.step]_vars

\* The receiver has advanced, and has then used a saved key.
C9_Witness ==
    /\ receiver.step >= 3
    /\ ret.res = "ok"
    /\ delivered[1] = 1
    /\ 2 \in DOMAIN receiver.skipped_keys

\* C10 as stated: the V2 receiver's step never decreases, over decrypt and
\* refresh_root calls.
C10_StepMonotonicV2 == [][receiver2'.step >= receiver2.step]_vars

\* C10 amended: a decrypt never decreases the V2 receiver's step, and a
\* refresh_root sets it to 0.
C10_StepMonotonicUntilRefresh ==
    [][IF receiver2'.root_key # receiver2.root_key
       THEN receiver2'.step = 0
       ELSE receiver2'.step >= receiver2.step]_vars

\* The receiver has returned a message and then refreshed its root: its
\* step is back at 0.
C10_Witness ==
    /\ RefreshCount(receiver2) >= 1
    /\ receiver2.step = 0
    /\ \E i \in 1..Len(sent2) : delivered2[i] >= 1

\* ------------------------------------------------------------------------
\* Claims about the skip store, the packet format and the lookup cache
\* ------------------------------------------------------------------------

\* No step the V1 receiver has returned a message for is in skipped_keys.
ConsumedLeftV1 ==
    \A i \in 1..Len(sent) :
        delivered[i] >= 1 => i \notin DOMAIN receiver.skipped_keys

\* C11 as stated: in both receivers a step whose decrypt succeeded is not in
\* skipped_keys after the call and is not inserted again by any later call.
C11_ConsumedNeverStored ==
    /\ ConsumedLeftV1
    /\ \A i \in 1..Len(sent2) :
          delivered2[i] >= 1 => sent2[i].step \notin DOMAIN receiver2.skipped_keys

\* C11 amended: the same, for V2 up to the receiver's next refresh_root: a
\* step consumed under the receiver's current root is not in skipped_keys.
C11_ConsumedNotStored ==
    /\ ConsumedLeftV1
    /\ \A i \in 1..Len(sent2) :
          (delivered2[i] >= 1 /\ sent2[i].root = receiver2.root_key)
              => sent2[i].step \notin DOMAIN receiver2.skipped_keys

\* The V2 receiver has returned the message of a step under its current
\* root and holds the key of a later step it passed over.
C11_Witness ==
    \E i \in 1..Len(sent2) :
        /\ delivered2[i] >= 1
        /\ sent2[i].root = receiver2.root_key
        /\ \E s \in DOMAIN receiver2.skipped_keys : s > sent2[i].step

\* C12 as stated: V2 encrypt returns a packet of exactly 556 bytes for every
\* plaintext of 0..504 bytes and fails with PayloadTooLarge for every longer
\* one.
C12_FixedPacketSize504 ==
    \A pt \in SizePlaintexts :
        LET e == QSenderEncrypt(sender2, pt, "n1")
        IN  IF pt.len <= 504
            THEN e.res = "ok" /\ e.package.len = 556
            ELSE e.res = "PayloadTooLarge"

\* The longest plaintext that fits at step n with the default sender_id:
\* 504 bytes less the 55 bytes of the header, 56 from step 10 on.
C12_Limit(n) == IF n < 10 THEN 449 ELSE 448

\* C12 amended: V2 encrypt returns a packet of exactly 556 bytes for every
\* plaintext that fits with its header (4 + |H| + 4 + |M| <= 512) and fails
\* with PayloadTooLarge for every longer one.
C12_FixedPacketSize ==
    \A pt \in SizePlaintexts :
        LET e == QSenderEncrypt(sender2, pt, "n1")
        IN  IF pt.len <= C12_Limit(sender2.step + 1)
            THEN e.res = "ok" /\ e.package.len = 556
            ELSE e.res = "PayloadTooLarge"

\* The sender has produced a 556-byte packet for the longest plaintext that
\* fits at a one-digit step and for the longest that fits at step 10, and
\* has refused plaintexts in between.
C12_Witness ==
    /\ Len(sent2) = 2
    /\ sent2[1].plaintext.len = 449 /\ sent2[1].step < 10
    /\ sent2[2].plaintext.len = 448 /\ sent2[2].step = 10
    /\ sent2[1].package.len = 556 /\ sent2[2].package.len = 556

\* C13: in every state of the V2 receiver, lookup_cache has at most
\* len(skipped_keys) + MAX_SKIP entries.
C13_CacheSize ==
    Cardinality(DOMAIN receiver2.lookup_cache)
        <= Cardinality(DOMAIN receiver2.skipped_keys) + MAX_SKIP

\* After a decrypt that passed over a step, the cache holds the skipped
\* key's beacon and MAX_SKIP beacons of the lookahead.
C13_Witness ==
    /\ ret2.res = "ok"
    /\ DOMAIN receiver2.skipped_keys # {}
    /\ Cardinality(DOMAIN receiver2.lookup_cache)
         = Cardinality(DOMAIN receiver2.skipped_keys) + MAX_SKIP

\* Sender and receiver have both refreshed their roots, with the same
\* entropy each time.
Resynced ==
    /\ RefreshCount(receiver2) >= 1
    /\ sender2.root_key = receiver2.root_key

\* The packets of the first encrypt call after the sender's refresh to the
\* root the receiver holds.
FirstAfterRefresh ==
    {i \in 1..Len(sent2) : sent2[i].root = receiver2.root_key /\ sent2[i].step = 1}

\* C14: V2 root refresh resynchronises both sides.  A refresh_root leaves
\* its ratchet at step 0 on the chain of the new root, the receiver with no
\* skipped keys; once both sides have refreshed with the same entropy they
\* hold the same chain key at step 0, the next packet the sender encrypts
\* carries a beacon none of the receiver's caches before the refresh held,
\* and the receiver decrypts that packet to its plaintext.
C14_RefreshResyncs ==
    [][/\ receiver2'.root_key # receiver2.root_key =>
             /\ receiver2'.step = 0
             /\ receiver2'.chain_key = receiver2'.root_key
             /\ DOMAIN receiver2'.skipped_keys = {}
       /\ sender2'.root_key # sender2.root_key =>
             /\ sender2'.step = 0
             /\ sender2'.chain_key = sender2'.root_key
       /\ (Resynced' /\ sender2'.step = 0 /\ receiver2'.step = 0) =>
             sender2'.chain_key = receiver2'.chain_key
       /\ Resynced' =>
             \A i \in FirstAfterRefresh' :
                /\ sent2'[i].package.beacon \notin beacons2'.before
                /\ receiver2'.step = 0 =>
                      LET d == QReceiverDecrypt(receiver2', sent2'[i].package)
                      IN  /\ d.res = "ok"
                          /\ d.out = sent2'[i].plaintext
                          /\ d.rx.step = 1]_vars

\* After a packet under the old root, both sides refreshed with the same
\* entropy and the receiver has returned the plaintext of the sender's next
\* packet.
C14_Witness ==
    /\ Resynced
    /\ Len(sent2) = 2
    /\ sent2[1].root # receiver2.root_key
    /\ 2 \in FirstAfterRefresh
    /\ delivered2[2] = 1
    /\ receiver2.step = 1
    /\ ret2.res = "ok"
    /\ beacons2.before # {}

\* A second QuantumDoubleRatchet instance seeded with the secret k, under
\* another sender_id.
OtherSender(k) ==
    [QSenderInit(k) EXCEPT !.sender_id = [name |-> "Other", len |-> 5]]

\* The second instance after refresh_root with each entropy of a root key,
\* from the j-th refresh on.
RECURSIVE OtherRefreshed(_, _, _)
OtherRefreshed(tx, root, j) ==
    IF 3 * j - 1 > Len(root) THEN tx
    ELSE OtherRefreshed(QSenderRefreshRoot(tx, root[3 * j - 1]), root, j + 1)

\* The beacon of the n-th packet the second instance then encrypts, its
\* plaintexts, nonces, times and message ids being others than the first's.
RECURSIVE OtherBeacon(_, _)
OtherBeacon(tx, n) ==
    LET e == QSenderEncryptAt(tx, [id |-> "other", len |-> 5 + n], "n2",
                              1800000000 + n, "ffff0000")
    IN  IF n <= 1 THEN e.package.beacon ELSE OtherBeacon(e.tx, n - 1)

\* C15 as stated: the beacon of the packet of step n depends only on the
\* shared secret and n: a second instance seeded with the same secret has
\* the same beacon at step n.
C15_BeaconOfSecretAndStep ==
    \A i \in 1..Len(sent2) :
        sent2[i].package.beacon
            = OtherBeacon(OtherSender(sent2[i].root[1]), sent2[i].step)

\* C15 amended: the beacon of the packet of step n depends only on the
\* shared secret, the entropies of the refresh_root calls so far and n: a
\* second instance seeded with the same secret and refreshed with the same
\* entropies has the same beacon at step n.
C15_BeaconDeterminism ==
    \A i \in 1..Len(sent2) :
        sent2[i].package.beacon
            = OtherBeacon(OtherRefreshed(OtherSender(sent2[i].root[1]), sent2[i].root, 1),
                          sent2[i].step)

\* The sender has produced a packet before a refresh and one at the second
\* step after it.
C15_Witness ==
    /\ Len(sent2) = 2
    /\ RefreshCount(sender2) >= 1
    /\ Len(sent2[1].root) = 1
    /\ sent2[2].root = sender2.root_key
    /\ sent2[2].step = 2

\* C16: V2 decrypt of a packet of at least 44 bytes whose beacon is not a
\* key of lookup_cache fails with UnknownBeacon and leaves step, chain key,
\* skipped_keys and lookup_cache as they were.  Stated of the call on every
\* package of the wire, in every state the receiver reaches.
C16_UnknownBeaconNoOp ==
    \A package \in Wire2 :
        (/\ package.len >= 44
         /\ package.beacon \notin DOMAIN receiver2.lookup_cache) =>
            LET d == QReceiverDecrypt(receiver2, package)
            IN  /\ d.res = "UnknownBeacon"
                /\ d.rx = receiver2

\* A receiver that holds a skipped key has refused a packet it had already
\* consumed, whose beacon left the cache.
C16_Witness ==
    /\ ret2.res = "UnknownBeacon"
    /\ DOMAIN receiver2.skipped_keys # {}
    /\ \E i \in 1..Len(sent2) :
          /\ delivered2[i] = 1
          /\ sent2[i].package.beacon \notin DOMAIN receiver2.lookup_cache

\* C17 as stated: V2 decrypt fails with MalformedPacket for every packet
\* whose length is not 556 bytes, and leaves the receiver as it was.
C17_MalformedUnless556 ==
    \A package \in Wire2 :
        package.len # 556 =>
            LET d == QReceiverDecrypt(receiver2, package)
            IN  /\ d.res = "MalformedPacket"
                /\ d.rx = receiver2

\* C18 as stated: the V2 receiver never holds more than MAX_CACHE entries in
\* skipped_keys.
C18_SkipStoreBounded ==
    Cardinality(DOMAIN receiver2.skipped_keys) <= MAX_CACHE

\* The length in bytes of a chain key: of the secret the constructor was
\* given, or of the HKDF output that replaced it.
KeyLen(key) == IF Len(key) = 1 THEN SecretLen[key[1]] ELSE AES_KEY_SIZE

\* C19 as stated: no ratchet, V1 or V2, sender or receiver, holds a chain
\* key that is not 32 bytes long: a secret of another length is rejected at
\* construction.
C19_SecretLength ==
    /\ KeyLen(sender.chain_key) = 32
    /\ KeyLen(receiver.chain_key) = 32
    /\ KeyLen(sender2.chain_key) = 32
    /\ KeyLen(receiver2.chain_key) = 32

\* The message key j steps ahead of a chain key.
RECURSIVE KeyAhead(_, _)
KeyAhead(chain_key, j) ==
    IF j <= 1 THEN HKDF(chain_key, NoSalt, RATCHET_INFO_MSG)
    ELSE KeyAhead(HKDF(chain_key, NoSalt, RATCHET_INFO_CHAIN), j - 1)

\* C20: in every state of the V2 receiver (after construction, after a
\* decrypt that matched a beacon, authenticated or not, and after
\* refresh_root) lookup_cache holds exactly the beacons of the entries of
\* skipped_keys and of steps step+1 .. step+MAX_SKIP, each mapped to its key
\* and its own step; and rebuilding the cache leaves chain key, step and
\* skipped_keys as they were.
C20_CacheContents ==
    LET rx == receiver2
        skipped == {LookupId(rx.skipped_keys[s]) : s \in DOMAIN rx.skipped_keys}
        ahead == {LookupId(KeyAhead(rx.chain_key, j)) : j \in 1..MAX_SKIP}
        rebuilt == RefreshLookupCache(rx)
    IN  /\ DOMAIN rx.lookup_cache = skipped \cup ahead
        /\ \A s \in DOMAIN rx.skipped_keys :
              rx.lookup_cache[LookupId(rx.skipped_keys[s])]
                 = [key |-> rx.skipped_keys[s], seq |-> s]
        /\ \A j \in 1..MAX_SKIP :
              rx.lookup_cache[LookupId(KeyAhead(rx.chain_key, j))]
                 = [key |-> KeyAhead(rx.chain_key, j), seq |-> rx.step + j]
        /\ rebuilt.chain_key = rx.chain_key
        /\ rebuilt.step = rx.step
        /\ rebuilt.skipped_keys = rx.skipped_keys

\* The receiver holds a skipped key and its last decrypt matched a beacon
\* and then failed authentication.
C20_Witness ==
    /\ ret2.res = "AuthFailure"
    /\ DOMAIN receiver2.skipped_keys # {}
    /\ receiver2.step >= 2
    /\ RefreshCount(receiver2) >= 1

\* ------------------------------------------------------------------------
\* Claims about the chains, lost steps and the limits of the windows
\* ------------------------------------------------------------------------

\* The message key the real chain returns when _advance_chain, called from
\* the receiver's state, brings it to step n.
RECURSIVE RealKeyAt(_, _)
RealKeyAt(rx, n) ==
    LET a == AdvanceChain(rx)
    IN  IF a.rx.step >= n THEN a.mk ELSE RealKeyAt(a.rx, n)

\* The key the lookup cache holds for step n.
CachedKey(rx, n) ==
    LET lid == CHOOSE b \in DOMAIN rx.lookup_cache : rx.lookup_cache[b].seq = n
    IN  rx.lookup_cache[lid].key

\* C21: V2 shadow chain and real chain agree.  The key of every lookahead
\* entry beacon -> (mk, n) of lookup_cache is the message key the real chain
\* produces when _advance_chain reaches step n; so a decrypt that catches up
\* to match_seq ends as trial_decrypt with the cached match_key ends, and
\* every intermediate key it stores in skipped_keys is the key the cache
\* held for that step.  Stated of the call on every package of the wire, in
\* every state the receiver reaches.
C21_ShadowChainAgrees ==
    /\ \A b \in DOMAIN receiver2.lookup_cache :
          LET match == receiver2.lookup_cache[b]
          IN  match.seq > receiver2.step =>
                 match.key = RealKeyAt(receiver2, match.seq)
    /\ \A package \in Wire2 :
          (/\ package.len >= BEACON_SIZE + NONCE_SIZE + TAG_SIZE
           /\ package.beacon \in DOMAIN receiver2.lookup_cache
           /\ receiver2.lookup_cache[package.beacon].seq > receiver2.step) =>
              LET match == receiver2.lookup_cache[package.beacon]
                  d == QReceiverDecrypt(receiver2, package)
                  u == Unpack(trial_decrypt(match.key, package))
              IN  /\ d.res = u.res
                  /\ d.out = u.out
                  /\ d.rx.step = match.seq
                  /\ \A s \in (receiver2.step + 1)..(match.seq - 1) :
                        /\ s \in DOMAIN d.rx.skipped_keys
                        /\ d.rx.skipped_keys[s] = CachedKey(receiver2, s)

\* The receiver caught up to the second packet first, and the key it stored
\* for the step of the first packet is the one that opens that packet.
C21_Witness ==
    /\ Len(sent2) = 2
    /\ delivered2[2] = 1
    /\ delivered2[1] = 0
    /\ sent2[1].root = receiver2.root_key
    /\ sent2[1].step \in DOMAIN receiver2.skipped_keys
    /\ ~trial_decrypt(receiver2.skipped_keys[sent2[1].step], sent2[1].package).none

\* The secret a V1 ratchet was constructed with: the master its chain key was
\* derived from.
InitialSecret(ratchet) == <<ratchet.chain_key[1]>>

\* The CHAIN derivation applied n times to chain0.
RECURSIVE ChainAt(_, _)
ChainAt(chain0, n) ==
    IF n = 0 THEN chain0
    ELSE HKDF(ChainAt(chain0, n - 1), NoSalt, RATCHET_INFO_CHAIN)

\* The message key of step n: the MSG derivation of the chain key after
\* n - 1 advances.
MessageKeyAt(chain0, n) == HKDF(ChainAt(chain0, n - 1), NoSalt, RATCHET_INFO_MSG)

\* C22: chain-key derivation and sender/receiver sync.  In every state of
\* each of the four ratchets the chain key is the CHAIN derivation applied
\* step times to chain0 (the initial secret, in V2 the root of the latest
\* refresh_root); the message key of every packet sent and of every skipped
\* key stored at step n is the MSG derivation of the chain key after n - 1
\* advances; and a sender and a receiver with the same chain0 at the same
\* step derive the same message key for the next step.
C22_ChainDerivation ==
    /\ sender.chain_key = ChainAt(InitialSecret(sender), sender.step)
    /\ receiver.chain_key = ChainAt(InitialSecret(receiver), receiver.step)
    /\ sender2.chain_key = ChainAt(sender2.root_key, sender2.step)
    /\ receiver2.chain_key = ChainAt(receiver2.root_key, receiver2.step)
    /\ \A i \in 1..Len(sent) :
          sent[i].package.box.key
             = HKDF(MessageKeyAt(InitialSecret(sender), i), sent[i].package.salt, HKDF_INFO)
    /\ \A s \in DOMAIN receiver.skipped_keys :
          receiver.skipped_keys[s] = MessageKeyAt(InitialSecret(receiver), s)
    /\ \A i \in 1..Len(sent2) :
          sent2[i].package.box.key
             = HKDF(MessageKeyAt(sent2[i].root, sent2[i].step), NoSalt, HKDF_INFO_V2)
    /\ \A s \in DOMAIN receiver2.skipped_keys :
          receiver2.skipped_keys[s] = MessageKeyAt(receiver2.root_key, s)
    /\ (InitialSecret(sender) = InitialSecret(receiver) /\ sender.step = receiver.step) =>
          /\ SenderAdvance(sender).mk = ReceiverAdvance(receiver).mk
          /\ SenderAdvance(sender).mk = MessageKeyAt(InitialSecret(sender), sender.step + 1)
    /\ (sender2.root_key = receiver2.root_key /\ sender2.step = receiver2.step) =>
          /\ AdvanceMessageKey(sender2).mk = AdvanceChain(receiver2).mk
          /\ AdvanceMessageKey(sender2).mk = MessageKeyAt(sender2.root_key, sender2.step + 1)

\* Both V2 sides refreshed with the same entropy, the sender is two steps
\* into the new chain and the receiver has caught up with it, holding the
\* key of the step it passed over.
C22_Witness ==
    /\ RefreshCount(sender2) >= 1
    /\ sender2.root_key = receiver2.root_key
    /\ sender2.step = 2
    /\ receiver2.step = 2
    /\ 1 \in DOMAIN receiver2.skipped_keys
    /\ ret2.res = "ok"

\* A beacon the receiver's cache held once and holds no more.
LeftCache(beacon) ==
    /\ beacon \in beacons2.held
    /\ beacon \notin DOMAIN receiver2.lookup_cache

\* C23: a corrupted V2 packet permanently loses its step.  When decrypt is
\* given a package whose beacon matches the cache entry of step s and whose
\* nonce, tag or ciphertext fails verification, the call returns no
\* plaintext, the key of step s is in neither skipped_keys nor lookup_cache
\* after it, and the genuine packet of step s then fails with UnknownBeacon;
\* and a beacon that has left the cache never enters it again, so that every
\* later decrypt of that packet fails the same way.
C23_CorruptedLosesStep ==
    /\ [](/\ DOMAIN receiver2.lookup_cache \subseteq beacons2.held
          /\ \A package \in Wire2 :
                (/\ package.len >= BEACON_SIZE + NONCE_SIZE + TAG_SIZE
                 /\ package.beacon \in DOMAIN receiver2.lookup_cache
                 /\ trial_decrypt(receiver2.lookup_cache[package.beacon].key, package).none) =>
                    LET match == receiver2.lookup_cache[package.beacon]
                        d == QReceiverDecrypt(receiver2, package)
                    IN  /\ d.res = "AuthFailure"
                        /\ d.out = "none"
                        /\ match.seq \notin DOMAIN d.rx.skipped_keys
                        /\ package.beacon \notin DOMAIN d.rx.lookup_cache
                        /\ \A b \in DOMAIN d.rx.lookup_cache :
                              d.rx.lookup_cache[b].key # match.key
                        /\ \A i \in 1..Len(sent2) :
                              sent2[i].package.beacon = package.beacon =>
                                 LET g == QReceiverDecrypt(d.rx, sent2[i].package)
                                 IN  g.res = "UnknownBeacon" /\ g.rx = d.rx
          /\ \A i \in 1..Len(sent2) :
                LeftCache(sent2[i].package.beacon) =>
                   QReceiverDecrypt(receiver2, sent2[i].package).res = "UnknownBeacon")
    /\ [][\A i \in 1..Len(sent2) :
             LeftCache(sent2[i].package.beacon) => LeftCache(sent2[i].package.beacon)']_vars

\* The receiver has passed the step of the one packet sent without returning
\* its message and without a key for it, and has just refused the genuine
\* packet.
C23_Witness ==
    /\ Len(sent2) = 1
    /\ delivered2[1] = 0
    /\ sent2[1].root = receiver2.root_key
    /\ sent2[1].step <= receiver2.step
    /\ sent2[1].step \notin DOMAIN receiver2.skipped_keys
    /\ ret2.res = "UnknownBeacon"
    /\ QReceiverDecrypt(receiver2, sent2[1].package).res = "UnknownBeacon"

\* Step s of the chain of a root was burned: the sender has produced a packet
\* at a later step of that chain and none at step s.
Burned(root, s) ==
    /\ s >= 1
    /\ \E i \in 1..Len(sent2) : sent2[i].root = root /\ sent2[i].step > s
    /\ \A i \in 1..Len(sent2) : ~(sent2[i].root = root /\ sent2[i].step = s)

\* C24: V2 PayloadTooLarge burns a step.  An encrypt that fails with
\* PayloadTooLarge returns no packet and leaves the sender one step further
\* on its chain; every later packet within the receiver's lookahead window
\* is still decrypted to its plaintext, the burned steps before it being
\* stored in skipped_keys; and no decrypt call removes the entry of a burned
\* step from skipped_keys.
C24_PayloadTooLargeBurnsStep ==
    /\ [](/\ \A pt \in PlaintextsV2 :
                LET e == QSenderEncrypt(sender2, pt, "n1")
                IN  e.res = "PayloadTooLarge" =>
                       /\ e.package = "none"
                       /\ e.tx.step = sender2.step + 1
                       /\ e.tx.chain_key = HKDF(sender2.chain_key, NoSalt, RATCHET_INFO_CHAIN)
          /\ \A i \in 1..Len(sent2) :
                (/\ sent2[i].root = receiver2.root_key
                 /\ sent2[i].step > receiver2.step
                 /\ sent2[i].step <= receiver2.step + MAX_SKIP) =>
                    LET d == QReceiverDecrypt(receiver2, sent2[i].package)
                    IN  /\ d.res = "ok"
                        /\ d.out = sent2[i].plaintext
                        /\ \A s \in (receiver2.step + 1)..(sent2[i].step - 1) :
                              Burned(receiver2.root_key, s) => s \in DOMAIN d.rx.skipped_keys)
    /\ [][receiver2'.root_key = receiver2.root_key =>
             \A s \in DOMAIN receiver2.skipped_keys :
                Burned(receiver2.root_key, s) => s \in DOMAIN receiver2'.skipped_keys]_vars

\* The sender burned step 1 and then produced two packets; the receiver has
\* returned both messages and still holds the key of step 1.
C24_Witness ==
    /\ Len(sent2) = 2
    /\ sent2[1].step = 2
    /\ sent2[1].root = receiver2.root_key
    /\ sent2[2].root = receiver2.root_key
    /\ delivered2[1] = 1
    /\ delivered2[2] = 1
    /\ Burned(receiver2.root_key, 1)
    /\ 1 \in DOMAIN receiver2.skipped_keys

\* secure_wipe: a bytearray is overwritten with zeros; an immutable bytes
\* object is left as it is.
secure_wipe(data) ==
    IF data.type = "bytearray" THEN [data EXCEPT !.zeroed = TRUE] ELSE data

\* The buffer self._chain_key of a V1 ratchet: the bytearray __init__ made of
\* the secret, or from the first _advance on the bytes object HKDF returned.
ChainKeyBufferV1(ratchet) ==
    [type   |-> IF ratchet.step = 0 THEN "bytearray" ELSE "bytes",
     key    |-> ratchet.chain_key,
     zeroed |-> FALSE]

\* The buffer self._chain_key of a V2 ratchet: __init__, refresh_root and the
\* advance each assign a new bytearray.
ChainKeyBufferV2(ratchet) ==
    [type |-> "bytearray", key |-> ratchet.chain_key, zeroed |-> FALSE]

\* C25 as stated: in all four ratchets every chain advance, the first and
\* every later one, overwrites with zeros the buffer that held the previous
\* chain key before it replaces it.
C25_AdvanceZeroizes ==
    [][/\ sender'.chain_key # sender.chain_key =>
             secure_wipe(ChainKeyBufferV1(sender)).zeroed
       /\ receiver'.chain_key # receiver.chain_key =>
             secure_wipe(ChainKeyBufferV1(receiver)).zeroed
       /\ sender2'.chain_key # sender2.chain_key =>
             secure_wipe(ChainKeyBufferV2(sender2)).zeroed
       /\ receiver2'.chain_key # receiver2.chain_key =>
             secure_wipe(ChainKeyBufferV2(receiver2)).zeroed]_vars

\* The dispatch of decrypt lets the target step through: a saved key is
\* there for it, or it is ahead of the current step within both limits.
Dispatched(rx, target_step) ==
    \/ target_step \in DOMAIN rx.skipped_keys
    \/ /\ target_step > rx.step
       /\ ~SkipTooLarge(rx, target_step)
       /\ ~SkipStoreOverflow(rx, target_step)

\* C26 as stated: V1 decrypt of a packet shorter than 44 bytes leaves step,
\* chain key and skipped_keys as they were, for any AAD, and fails with
\* MalformedPacket (stated here for the AADs that the dispatch lets through,
\* a future step or a cached skipped step among them; the call fails in the
\* dispatch for the others).
C26_MalformedNoMutation ==
    \A package \in Wire, aad \in AadPool :
        package.len < SALT_SIZE + NONCE_SIZE + TAG_SIZE =>
            LET d == ReceiverDecrypt(receiver, package, aad)
            IN  /\ d.rx = receiver
                /\ Dispatched(receiver, TargetStep(aad, receiver.step)) =>
                      d.res = "MalformedPacket"

\* The package is long enough for decrypt to look up its beacon.
LongEnough(package) == package.len >= BEACON_SIZE + NONCE_SIZE + TAG_SIZE

\* C27: V2 replay rejection.  A package that a decrypt call consumed, with
\* its message returned or with an authentication failure, has its beacon in
\* no cache from then on: submitted again, at once or after any later calls,
\* it fails with UnknownBeacon and changes no state; and no packet's
\* plaintext is returned twice.
C27_ReplayRejectedV2 ==
    /\ [](/\ \A package \in Wire2 :
                LET d == QReceiverDecrypt(receiver2, package)
                IN  d.res \in {"ok", "AuthFailure"} =>
                       LET again == QReceiverDecrypt(d.rx, package)
                       IN  /\ package.beacon \in DOMAIN receiver2.lookup_cache
                           /\ package.beacon \notin DOMAIN d.rx.lookup_cache
                           /\ again.res = "UnknownBeacon"
                           /\ again.rx = d.rx
          /\ \A package \in Wire2 :
                (LongEnough(package) /\ LeftCache(package.beacon)) =>
                    LET d == QReceiverDecrypt(receiver2, package)
                    IN  d.res = "UnknownBeacon" /\ d.rx = receiver2
          /\ \A i \in 1..Len(sent2) : delivered2[i] <= 1)
    /\ [][\A package \in Wire2 :
             LeftCache(package.beacon) => LeftCache(package.beacon)']_vars

\* Both packets sent have been returned once and the receiver, holding no
\* saved key, has since refused a package: neither beacon is in its cache.
C27_Witness ==
    /\ Len(sent2) = 2
    /\ delivered2[1] = 1
    /\ delivered2[2] = 1
    /\ DOMAIN receiver2.skipped_keys = {}
    /\ ret2.res = "UnknownBeacon"
    /\ LeftCache(sent2[1].package.beacon)
    /\ LeftCache(sent2[2].package.beacon)

\* C28: V2 lookahead boundary.  With the receiver at step c and no refresh,
\* the genuine packet of a step from c + 1 to c + MAX_SKIP is decrypted to
\* its plaintext, the one of step c + MAX_SKIP leaving the MAX_SKIP - 1 keys
\* of the steps in between in skipped_keys; the genuine packet of a step
\* beyond c + MAX_SKIP fails with UnknownBeacon and leaves the receiver as
\* it was, until the receiver's step has moved up to within MAX_SKIP of it.
C28_LookaheadBoundary ==
    \A i \in 1..Len(sent2) :
        LET c == receiver2.step
            s == sent2[i].step
            d == QReceiverDecrypt(receiver2, sent2[i].package)
        IN  sent2[i].root = receiver2.root_key =>
               /\ (s > c /\ s <= c + MAX_SKIP) =>
                     /\ d.res = "ok"
                     /\ d.out = sent2[i].plaintext
                     /\ d.rx.step = s
               /\ s = c + MAX_SKIP =>
                     /\ DOMAIN d.rx.skipped_keys
                          = DOMAIN receiver2.skipped_keys \cup ((c + 1)..(s - 1))
                     /\ Cardinality(DOMAIN d.rx.skipped_keys)
                          = Cardinality(DOMAIN receiver2.skipped_keys) + MAX_SKIP - 1
               /\ s > c + MAX_SKIP =>
                     /\ d.res = "UnknownBeacon"
                     /\ d.rx = receiver2

\* The packet of step MAX_SKIP + 1 was refused by the receiver at step 0;
\* the packet of step MAX_SKIP was then decrypted, and the refused packet is
\* now within the window.
C28_Witness ==
    /\ handed2 = <<MAX_SKIP + 1, MAX_SKIP>>
    /\ delivered2[MAX_SKIP + 1] = 0
    /\ delivered2[MAX_SKIP] = 1
    /\ receiver2.step = MAX_SKIP
    /\ DOMAIN receiver2.skipped_keys = 1..(MAX_SKIP - 1)
    /\ QReceiverDecrypt(receiver2, sent2[MAX_SKIP + 1].package).res = "ok"

\* C29: V1 in-order delivery is never blocked by the skip-store bound.  In
\* every state of the receiver skipped_keys holds at most
\* MAX_STORED_KEYS - 1 keys, so a decrypt whose target is the current step
\* + 1 is rejected neither with SkipStoreOverflow nor with SkipTooLarge,
\* whatever earlier calls, those with forged sequence numbers included, have
\* stored.  Stated of the call on every package of the wire with every AAD.
C29_InOrderNeverBlocked ==
    /\ Cardinality(DOMAIN receiver.skipped_keys) <= MAX_STORED_KEYS - 1
    /\ ~SkipTooLarge(receiver, receiver.step + 1)
    /\ ~SkipStoreOverflow(receiver, receiver.step + 1)
    /\ \A package \in Wire, aad \in AadPool :
          TargetStep(aad, receiver.step) = receiver.step + 1 =>
             ReceiverDecrypt(receiver, package, aad).res
                \notin {"SkipStoreOverflow", "SkipTooLarge"}

\* With the store at its fullest after forged jumps, a decrypt for the next
\* step was let through to the packet check.
C29_Witness ==
    /\ Cardinality(DOMAIN receiver.skipped_keys) = MAX_STORED_KEYS - 1
    /\ (receiver.step - 1) \notin DOMAIN receiver.skipped_keys
    /\ receiver.step > MAX_STORED_KEYS
    /\ ret.res = "AuthFailure"

=============================================================================
